---- MODULE Spec2Model ----
(***************************************************************************)
(* Verification model of prob_mbrl: the stochastic (dropout) layers, their  *)
(* container, the regressor's dataset statistics, the policy and dynamics  *)
(* wrappers (prob_mbrl/models/modules.py), and the particle rollout and    *)
(* policy search loop (prob_mbrl/algorithms/mc_pilco.py).                  *)
(*                                                                         *)
(* Random draws are modelled by their identity: every call of              *)
(* torch.bernoulli / torch.rand_like / torch.randn gets the next serial    *)
(* number of the generator (rng), so two tensors are the same draw exactly *)
(* when they carry the same serial number.  Tensors whose values come from *)
(* caller-supplied networks are modelled as terms over their inputs.       *)
(***************************************************************************)
EXTENDS Integers, Sequences, FiniteSets, TLC

VARIABLES
    \* ---- a BSequential under test (modules.py) ----
    seq,        \* the chain: sequence of module records
    rng,        \* number of random draws made so far
    hist,       \* the most recent calls on the chain (the last three)
    \* ---- one call of get_z_rnd (mc_pilco.py) ----
    zq,         \* the arguments: pool z (or None), step index i, shape[0]
    zout,       \* what the call returned
    \* ---- mc_pilco and rollout (mc_pilco.py) ----
    pc,             \* position in mc_pilco / rollout
    args,           \* the arguments of the call
    z,              \* the dict z of noise pools
    policy_model,   \* policy.model, a BSequential
    dynamics_model, \* dynamics.model, a BSequential
    theta,          \* version of the policy parameters (optimizer steps taken)
    heap,           \* the state batch tensors: object id -> contents
    init_states,    \* mc_pilco's variable init_states (an object id)
    states,         \* rollout's variable states (an object id)
    M,              \* rollout's variable M
    i,              \* rollout's loop variable
    it,             \* mc_pilco's loop variable
    trajectory,     \* rollout's list trajectory
    zreads,         \* the noise batches handed to rollout steps so far
    n_rollouts,     \* calls of rollout made by mc_pilco
    n_opt_steps,    \* calls of opt.step()
    loss,           \* the last loss
    results,        \* the trajectories returned by rollout calls
    zb,             \* rollout's z1, z2, z3 of the current step
    actions,        \* rollout's variable actions
    sched,          \* mc_pilco's calls of resample() and rollout, in order
    \* ---- one call of Policy.forward (modules.py) ----
    polq,       \* out_scale, out_bias and one element of the network's output
    pout,       \* the action element returned
    \* ---- one call of BSequential.regularization_loss (modules.py) ----
    regq,       \* the chain of modules and the interpreter running it
    regout,     \* what the call returned or raised
    \* ---- DynamicsModel.forward on both input forms (modules.py) ----
    dynq,       \* D, U, reward configuration, deltas, separate_outputs
    dynout,     \* the results for the pair and for the concatenated input
    \* ---- a DynamicsModel and its set_dataset calls (modules.py) ----
    data,       \* the buffers X, Y, mx, Sx, iSx, my, Sy, iSy, maxR, minR
    dlast,      \* the arguments and outcome of the last set_dataset call
    \* ---- the loss of one mc_pilco iteration (mc_pilco.py) ----
    lossq,      \* the stacked rewards (steps x particles) and maximize
    lossout     \* the loss

varsLayer == <<seq, hist>>
varsZ == <<zq, zout>>
varsPolicy == <<polq, pout>>
varsReg == <<regq, regout>>
varsDyn == <<dynq, dynout>>
varsData == <<data, dlast>>
varsLoss == <<lossq, lossout>>
varsModels == <<varsReg, varsDyn, varsData, varsLoss>>
varsPilco == <<pc, args, z, policy_model, dynamics_model, theta, heap, init_states,
               states, M, i, it, trajectory, zreads, n_rollouts, n_opt_steps,
               loss, results, zb, actions, sched>>

vars == <<seq, rng, hist, zq, zout, pc, args, z, policy_model, dynamics_model,
          theta, heap, init_states, states, M, i, it, trajectory, zreads,
          n_rollouts, n_opt_steps, loss, results, zb, actions, sched, polq, pout,
          regq, regout, dynq, dynout, data, dlast, lossq, lossout>>

-----------------------------------------------------------------------------
(* Bounds *)

MaxDraws == 5      \* draws of the generator explored in the layer specification
MaxM     == 2      \* largest particle count / batch rows
MaxParam == 1      \* number of parameter updates explored (logit_p versions)
MaxSteps == 2      \* longest rollout horizon
MaxIters == 2      \* largest opt_iters
MaxPre   == 2      \* calls the caller makes on the networks before a rollout
MaxVal   == 2      \* largest magnitude of out_scale, out_bias, network output
MaxLen   == 3      \* longest chain given to regularization_loss
MaxD     == 2      \* largest state dimension D given to DynamicsModel.forward
MaxU     == 4      \* largest action dimension U given to DynamicsModel.forward
MaxRows  == 2      \* most rows of a dataset given to set_dataset

-----------------------------------------------------------------------------
(* Tensor shapes *)

Scalar == <<>>

\* x.shape[-mask_dims:] with mask_dims = 2
Trailing(s) == IF Len(s) <= 2 THEN s ELSE SubSeq(s, Len(s) - 1, Len(s))

\* torch broadcasting of two operand shapes in x * mask
Broadcastable(a, b) ==
    \A k \in 1..(IF Len(a) < Len(b) THEN Len(a) ELSE Len(b)) :
        \/ a[Len(a) - k + 1] = b[Len(b) - k + 1]
        \/ a[Len(a) - k + 1] = 1
        \/ b[Len(b) - k + 1] = 1

\* input shapes given to the layers: (M, 2) batches and one 3-d batch
XShapes == {<<m, 2>> : m \in 1..MaxM} \cup {<<2, MaxM, 2>>}

-----------------------------------------------------------------------------
(* Masks and layers *)

\* a noise tensor or relaxed mask: its shape, the draw it was computed from,
\* the distribution of that draw and, for a relaxed mask, the logit_p used
Noise(shape, draw, dist) ==
    [shape |-> shape, draw |-> draw, dist |-> dist, logit |-> -1]

\* CDropout.concrete_noise = None
NoneMask == [shape |-> Scalar, draw |-> 0, dist |-> "none", logit |-> -1]

\* the result of x * mask when the shapes do not broadcast
ShapeError == [shape |-> Scalar, draw |-> 0, dist |-> "error", logit |-> -1]

\* BDropout.__init__ / CDropout.__init__: noise is a scalar Bernoulli draw,
\* concrete_noise is None; a Linear module has no noise
NewModule(cls, d) ==
    [cls |-> cls, training |-> TRUE,
     noise |-> IF cls = "Linear" THEN NoneMask ELSE Noise(Scalar, d, "bernoulli"),
     concrete_noise |-> NoneMask,
     logit_p |-> 0]

IsStochastic(l) == l.cls \in {"BDropout", "CDropout"}

\* BDropout.update_noise: torch.bernoulli(p.expand(x.shape))
BDropout_update_noise(l, xshape, d) ==
    [l EXCEPT !.noise = Noise(xshape, d, "bernoulli")]

\* CDropout.update_noise: torch.rand_like(x)
CDropout_update_noise(l, xshape, d) ==
    [l EXCEPT !.noise = Noise(xshape, d, "uniform")]

\* self.update_noise(...): the method of the layer's own class
update_noise(l, xshape, d) ==
    IF l.cls = "CDropout" THEN CDropout_update_noise(l, xshape, d)
    ELSE BDropout_update_noise(l, xshape, d)

\* BDropout.resample (inherited by CDropout): redraw noise in its own shape
resample(l, d) == update_noise(l, l.noise.shape, d)

\* CDropout.update_concrete_noise: sigmoid((logit_p + log u - log(1-u))/temp)
\* has the shape of the base noise (logit_p and temp are scalars)
update_concrete_noise(l, noise) ==
    [l EXCEPT !.concrete_noise =
        [shape |-> noise.shape, draw |-> noise.draw,
         dist |-> noise.dist, logit |-> l.logit_p]]

\* x * mask
Apply(x, mask) == IF Broadcastable(x, mask.shape) THEN mask ELSE ShapeError

\* BDropout.forward(x, resample); d is the serial of the next draw.
\* Returns the layer afterwards, the mask applied, and whether d was drawn.
BDropout_forward(l, x, rs, d) ==
    LET sample_shape == Trailing(x) IN
    IF sample_shape # l.noise.shape
    THEN LET l2 == update_noise(l, sample_shape, d) IN
         [layer |-> l2, mask |-> Apply(x, l2.noise), drew |-> TRUE]
    ELSE IF rs
    THEN [layer |-> l, mask |-> Noise(x, d, "bernoulli"), drew |-> TRUE]
    ELSE [layer |-> l, mask |-> Apply(x, l.noise), drew |-> FALSE]

\* CDropout.forward(x, resample)
CDropout_forward(l, x, rs, d) ==
    LET sample_shape == Trailing(x)
        regen == /\ ~rs
                 /\ \/ l.concrete_noise.dist = "none"
                    \/ sample_shape # l.concrete_noise.shape
        l1 == IF regen THEN update_noise(l, sample_shape, d) ELSE l
        noise == IF rs THEN Noise(x, d, "uniform") ELSE l1.noise
        resampled == rs \/ regen
        l2 == IF l.training \/ resampled
              THEN update_concrete_noise(l1, noise) ELSE l1
    IN [layer |-> l2, mask |-> Apply(x, l2.concrete_noise), drew |-> resampled]

\* module(input, resample=...) inside BSequential.forward
Module_forward(l, x, rs, d) ==
    IF l.cls = "CDropout" THEN CDropout_forward(l, x, rs, d)
    ELSE IF l.cls = "BDropout" THEN BDropout_forward(l, x, rs, d)
    ELSE [layer |-> l, mask |-> NoneMask, drew |-> FALSE]

\* BSequential.resample: every BDropout (hence CDropout) of the chain
RECURSIVE Seq_resample(_, _)
Seq_resample(mods, r) ==
    IF mods = <<>> THEN [mods |-> <<>>, rng |-> r]
    ELSE LET l == Head(mods)
             l2 == IF IsStochastic(l) THEN resample(l, r + 1) ELSE l
             r2 == IF IsStochastic(l) THEN r + 1 ELSE r
             rest == Seq_resample(Tail(mods), r2)
         IN [mods |-> <<l2>> \o rest.mods, rng |-> rest.rng]

\* BSequential.forward: the modules in order; an exception raised by a module
\* leaves the later modules untouched
RECURSIVE Seq_forward(_, _, _, _)
Seq_forward(mods, x, rs, r) ==
    IF mods = <<>> THEN [mods |-> <<>>, masks |-> <<>>, rng |-> r, err |-> FALSE]
    ELSE LET f == Module_forward(Head(mods), x, rs, r + 1)
             r2 == IF f.drew THEN r + 1 ELSE r
         IN IF f.mask.dist = "error"
            THEN [mods |-> <<f.layer>> \o Tail(mods), masks |-> <<f.mask>>,
                  rng |-> r2, err |-> TRUE]
            ELSE LET rest == Seq_forward(Tail(mods), x, rs, r2)
                 IN [mods |-> <<f.layer>> \o rest.mods,
                     masks |-> <<f.mask>> \o rest.masks,
                     rng |-> rest.rng, err |-> rest.err]

\* the masks a forward call would apply now with resample=False, were the
\* stored masks used as they are
StoredMask(l) == IF l.cls = "CDropout" THEN l.concrete_noise ELSE l.noise


-----------------------------------------------------------------------------
(* Shared noise pools and get_z_rnd (mc_pilco.py) *)

\* a pool is one torch.randn draw of len rows; row r of pool id is the same
\* numbers wherever it is read
Pool(id, len) == [id |-> id, len |-> len]

\* z is None
NonePool == Pool(0, 0)

\* idxs = torch.range(i, i+shape[0]-1).long(); idxs %= shape[0]
\* (torch.range includes its end point: shape[0] indices)
ZIdxs(step, m) == [k \in 1..m |-> (step + k - 1) % m]

\* a noise batch: rows of a pool, or a fresh torch.randn draw
NoiseBatch(op, pool, idxs, draw, rows) ==
    [op |-> op, pool |-> pool, idxs |-> idxs, draw |-> draw, rows |-> rows]

\* get_z_rnd with the test of z inverted: a fresh draw although a pool is given
get_z_rnd_fresh(zp, step, m, d) == NoiseBatch("randn", 0, <<>>, d, m)

\* get_z_rnd(z, i, shape): zp the pool, step the index i, m = shape[0], d the
\* serial of the next draw.  z[idxs] raises IndexError when an index is
\* outside the pool.
get_z_rnd(zp, step, m, d) ==
    IF zp # NonePool
    THEN LET idxs == ZIdxs(step, m) IN
         IF \E k \in 1..m : idxs[k] < 0 \/ idxs[k] >= zp.len
         THEN NoiseBatch("IndexError", zp.id, idxs, 0, 0)
         ELSE NoiseBatch("z", zp.id, idxs, 0, m)
    ELSE NoiseBatch("randn", 0, <<>>, d, m)

NoCall == NoiseBatch("none", 0, <<>>, 0, 0)

\* Policy.forward not called
IdlePolicy == polq = <<>> /\ pout = <<>>

\* regularization_loss, DynamicsModel.forward, set_dataset not called, no loss
IdleReg == regq = <<>> /\ regout = <<>>

IdleDyn == dynq = <<>> /\ dynout = <<>>

IdleData == data = <<>> /\ dlast = <<>>

IdleLoss == lossq = <<>> /\ lossout = <<>>

IdleModels == IdleReg /\ IdleDyn /\ IdleData /\ IdleLoss

IdleZ == zq = [z |-> NonePool, i |-> 0, M |-> 0] /\ zout = NoCall

-----------------------------------------------------------------------------
(* Tensors of the rollout.  The values computed by the caller's networks   *)
(* are terms over what they were computed from; rows is shape[0].          *)

\* the caller's initial state batch
X0(m) == [op |-> "x0", rows |-> m]

\* torch.tensor(exp.sample_initial_state(N)) perturbed in place by
\* 1e-2 * std * randn_like
Perturbed(N, d1, d2) ==
    [op |-> "perturbed", x |-> [op |-> "exp", draw |-> d1, rows |-> N],
     draw |-> d2, rows |-> N]

\* the shape of the activations a batch of rows particles gives the layers
ActShape(rows) == <<rows, 2>>

\* Policy.forward(x, resample=rs): u = scale * model(x) + bias
Policy_forward(mods, x, rs, th, r) ==
    LET f == Seq_forward(mods, ActShape(x.rows), rs, r) IN
    [out |-> [op |-> "policy", x |-> x, masks |-> f.masks, theta |-> th,
              rows |-> x.rows],
     mods |-> f.mods, rng |-> f.rng, err |-> f.err]

\* forward(states, actions, dynamics, ...) of the example: dynamics((states,
\* actions), resample=rs, z_states=z2, z_rewards=z3) -> states + deltas, rewards
Dyn_forward(mods, x, u, z2, z3, rs, r) ==
    LET f == Seq_forward(mods, ActShape(x.rows), rs, r) IN
    [next |-> [op |-> "next", x |-> x, u |-> u, z |-> z2, masks |-> f.masks,
               rows |-> x.rows],
     rewards |-> [op |-> "reward", x |-> x, u |-> u, z |-> z3, masks |-> f.masks,
                  rows |-> x.rows],
     mods |-> f.mods, rng |-> f.rng, err |-> f.err]

\* m + z.mm(S.potrf()) with m, S the mean and covariance of batch
MomentMatch(batch, zn, m) ==
    [op |-> "mm", x |-> batch, z |-> zn, M |-> m, rows |-> zn.rows]

\* trajectory.append((states, actions, rewards)); next_states is the batch
\* the step produced
TrajEntry_next(st, u, r, next_states) ==
    [states |-> next_states, actions |-> u, rewards |-> r]

TrajEntry(st, u, r, next_states) ==
    [states |-> st, actions |-> u, rewards |-> r]

Drew(b) == IF b.op = "randn" THEN 1 ELSE 0

PoolNames == <<"z_mm", "z_states", "z_rewards">>

\* lines 26-30: the head of rollout's loop body, the three noise batches
RolloutNoise ==
    /\ pc = "rollout"
    /\ i < args.steps
    /\ LET rows == heap[states].rows
           z1 == get_z_rnd(z.z_mm, i, rows, rng + 1)
           z2 == get_z_rnd(z.z_states, i, rows, rng + Drew(z1) + 1)
           z3 == get_z_rnd(z.z_rewards, i, rows, rng + Drew(z1) + Drew(z2) + 1)
       IN /\ zb' = <<z1, z2, z3>>
          /\ rng' = rng + Drew(z1) + Drew(z2) + Drew(z3)
          /\ zreads' = zreads \cup
               {[pool |-> PoolNames[1], it |-> it, i |-> i, batch |-> z1],
                [pool |-> PoolNames[2], it |-> it, i |-> i, batch |-> z2],
                [pool |-> PoolNames[3], it |-> it, i |-> i, batch |-> z3]}
          /\ pc' = IF "IndexError" \in {z1.op, z2.op, z3.op} THEN "raised" ELSE "policy"
    /\ UNCHANGED <<sched, args, z, policy_model, dynamics_model, theta, heap, init_states,
                   states, M, i, it, trajectory, actions, n_rollouts, n_opt_steps,
                   loss, results, varsLayer, varsZ, varsPolicy, varsModels>>

\* lines 32-33: actions = policy(states, resample=resample_policy)
RolloutPolicy ==
    /\ pc = "policy"
    /\ LET p == Policy_forward(policy_model, heap[states], args.resample_policy,
                               theta, rng)
       IN /\ policy_model' = p.mods
          /\ rng' = p.rng
          /\ actions' = p.out
          /\ pc' = IF p.err THEN "raised" ELSE "forward"
    /\ UNCHANGED <<sched, args, z, dynamics_model, theta, heap, init_states, states, M, i,
                   it, trajectory, zb, zreads, n_rollouts, n_opt_steps, loss,
                   results, varsLayer, varsZ, varsPolicy, varsModels>>

\* lines 35-53: forward, the optional moment matching, the append and the
\* rebinding of states to next_states
RolloutForward ==
    /\ pc = "forward"
    /\ LET f == Dyn_forward(dynamics_model, heap[states], actions, zb[2], zb[3],
                            args.resample_model, rng)
           next_states == IF args.mm_states THEN MomentMatch(f.next, zb[1], M)
                          ELSE f.next
           rewards == IF args.mm_rewards THEN MomentMatch(f.rewards, zb[3], M)
                      ELSE f.rewards
       IN /\ dynamics_model' = f.mods
          /\ rng' = f.rng
          /\ IF f.err
             THEN /\ pc' = "raised"
                  /\ UNCHANGED <<heap, states, trajectory, i>>
             ELSE /\ heap' = Append(heap, next_states)
                  /\ trajectory' = Append(trajectory,
                        TrajEntry(states, actions, rewards, Len(heap) + 1))
                  /\ states' = Len(heap) + 1
                  /\ i' = i + 1
                  /\ pc' = "rollout"
    /\ UNCHANGED <<sched, args, z, policy_model, theta, init_states, M, it, zb, actions,
                   zreads, n_rollouts, n_opt_steps, loss, results,
                   varsLayer, varsZ, varsPolicy, varsModels>>

-----------------------------------------------------------------------------
(* mc_pilco *)

\* rows of each pool: torch.randn(steps+shape[0], ...)
PoolLen_steps(steps, m) == steps

PoolLen(steps, m) == steps + m

NoPools == [z_mm |-> NonePool, z_states |-> NonePool, z_rewards |-> NonePool]

\* lines 68-76: z = {}; if pegasus: three torch.randn pools
AllocPools(pegasus, steps, m, r) ==
    IF pegasus
    THEN [z_mm |-> Pool(r + 1, PoolLen(steps, m)),
          z_states |-> Pool(r + 2, PoolLen(steps, m)),
          z_rewards |-> Pool(r + 3, PoolLen(steps, m))]
    ELSE NoPools

\* lines 89-94: the redraw binds init_states to a new tensor and perturbs
\* that tensor in place
RedrawInit_inplace(h, ref, r) ==
    [heap |-> [h EXCEPT ![ref] = Perturbed(h[ref].rows, r + 1, r + 2)],
     ref |-> ref, rng |-> r + 2]

RedrawInit(h, ref, r) ==
    [heap |-> Append(h, Perturbed(h[ref].rows, r + 1, r + 2)),
     ref |-> Len(h) + 1, rng |-> r + 2]

\* for i in pbar: pbar = tqdm.tqdm(range(opt_iters))
LoopContinues_converged(k, opt_iters, l) == k < opt_iters /\ l.val # 0

LoopContinues(k, opt_iters, l) == k < opt_iters

\* rollout's variable actions before the first step
NoAction == [op |-> "none", rows |-> 0]

NoLoss == [neg |-> FALSE, rewards |-> <<>>, val |-> -1]

\* the objective values an iteration may observe: 0 (nothing left to gain)
\* or 1
LossVals == {0, 1}

\* a call mc_pilco makes, in iteration it of the loop (0: before the loop);
\* a call of rollout also records the resample flags it is given
Call(name, k) ==
    [call |-> name, it |-> k, resample_policy |-> FALSE, resample_model |-> FALSE]

\* lines 60-78
Setup ==
    /\ pc = "start"
    /\ z' = AllocPools(args.pegasus, args.steps, heap[init_states].rows, rng)
    /\ LET r0 == IF args.pegasus THEN rng + 3 ELSE rng
           d == IF args.pegasus THEN Seq_resample(dynamics_model, r0)
                ELSE [mods |-> dynamics_model, rng |-> r0]
           p == IF args.pegasus THEN Seq_resample(policy_model, d.rng)
                ELSE [mods |-> policy_model, rng |-> d.rng]
       IN /\ dynamics_model' = d.mods
          /\ policy_model' = p.mods
          /\ rng' = p.rng
    /\ sched' = IF args.pegasus
                THEN sched \o <<Call("dynamics.model.resample", 0),
                                Call("policy.model.resample", 0)>>
                ELSE sched
    /\ pc' = "loop"
    /\ UNCHANGED <<args, theta, heap, init_states, states, M, i, it, trajectory,
                   zreads, n_rollouts, n_opt_steps, loss, results, zb, actions,
                   varsLayer, varsZ, varsPolicy, varsModels>>

\* lines 80-98: the top of an iteration up to the call of rollout
IterBegin ==
    /\ pc = "loop"
    /\ LoopContinues(it, args.opt_iters, loss)
    /\ LET d == IF ~args.pegasus THEN Seq_resample(dynamics_model, rng)
                ELSE [mods |-> dynamics_model, rng |-> rng]
           p == IF ~args.pegasus THEN Seq_resample(policy_model, d.rng)
                ELSE [mods |-> policy_model, rng |-> d.rng]
           x == IF args.exp THEN RedrawInit(heap, init_states, p.rng)
                ELSE [heap |-> heap, ref |-> init_states, rng |-> p.rng]
       IN /\ dynamics_model' = d.mods
          /\ policy_model' = p.mods
          /\ heap' = x.heap
          /\ init_states' = x.ref
          /\ rng' = x.rng
          \* rollout(init_states, ...): lines 24-25
          /\ states' = x.ref
          /\ M' = x.heap[x.ref].rows
    /\ sched' = (IF ~args.pegasus
                 THEN sched \o <<Call("dynamics.model.resample", it + 1),
                                 Call("policy.model.resample", it + 1)>>
                 ELSE sched)
                \o <<[call |-> "rollout", it |-> it + 1,
                      resample_policy |-> args.resample_policy,
                      resample_model |-> args.resample_model]>>
    /\ trajectory' = <<>>
    /\ i' = 0
    /\ n_rollouts' = n_rollouts + 1
    /\ pc' = "rollout"
    /\ UNCHANGED <<args, z, theta, it, zreads, n_opt_steps, loss, results, zb,
                   actions, varsLayer, varsZ, varsPolicy, varsModels>>

\* lines 99-111: rollout has returned; stack the trajectory, loss, backward,
\* opt.step().  Unpacking an empty trajectory raises ValueError.
IterEnd ==
    /\ pc = "rollout"
    /\ i >= args.steps
    /\ IF trajectory = <<>>
       THEN /\ pc' = "raised"
            /\ UNCHANGED <<loss, theta, n_opt_steps, it>>
       ELSE /\ \E v \in LossVals :
                 loss' = [neg |-> args.maximize,
                          rewards |-> [k \in 1..Len(trajectory) |-> trajectory[k].rewards],
                          val |-> v]
            /\ theta' = theta + 1
            /\ n_opt_steps' = n_opt_steps + 1
            /\ it' = it + 1
            /\ pc' = "loop"
    /\ results' = Append(results, [input |-> init_states, traj |-> trajectory])
    /\ UNCHANGED <<sched, args, z, policy_model, dynamics_model, heap, init_states, states,
                   M, i, trajectory, zreads, n_rollouts, rng, zb, actions,
                   varsLayer, varsZ, varsPolicy, varsModels>>

\* the for loop is exhausted: mc_pilco returns
LoopExit ==
    /\ pc = "loop"
    /\ ~LoopContinues(it, args.opt_iters, loss)
    /\ pc' = "done"
    /\ UNCHANGED <<sched, args, z, policy_model, dynamics_model, theta, heap, init_states,
                   states, M, i, it, trajectory, zreads, n_rollouts, n_opt_steps,
                   loss, results, rng, zb, actions, varsLayer, varsZ, varsPolicy, varsModels>>

IdleLayer == seq = <<>> /\ hist = <<>>

IdlePilco ==
    /\ pc = "idle" /\ args = <<>> /\ z = NoPools
    /\ policy_model = <<>> /\ dynamics_model = <<>>
    /\ theta = 0 /\ heap = <<>> /\ init_states = 0 /\ states = 0 /\ M = 0
    /\ i = 0 /\ it = 0 /\ trajectory = <<>> /\ zreads = {}
    /\ n_rollouts = 0 /\ n_opt_steps = 0 /\ loss = NoLoss /\ results = <<>>
    /\ zb = <<>> /\ actions = NoAction /\ sched = <<>>

\* the dynamics chain as the caller hands it over: newly built, or after
\* training on batches of m rows with resample=True
DynChains(m) ==
    { <<NewModule("CDropout", 2)>>,
      Seq_forward(<<NewModule("CDropout", 2)>>, ActShape(m), TRUE, 2).mods }

InitPilco ==
    /\ pc = "start"
    /\ \E m \in 1..MaxM, steps \in 0..MaxSteps, opt_iters \in 0..MaxIters,
          pegasus \in BOOLEAN, mm_states \in BOOLEAN, mm_rewards \in BOOLEAN,
          maximize \in BOOLEAN, exp \in BOOLEAN :
            /\ args = [steps |-> steps, opt_iters |-> opt_iters, pegasus |-> pegasus,
                       mm_states |-> mm_states, mm_rewards |-> mm_rewards,
                       maximize |-> maximize, exp |-> exp,
                       resample_policy |-> FALSE, resample_model |-> FALSE]
            /\ heap = <<X0(m)>>
            /\ dynamics_model \in DynChains(m)
    /\ policy_model = <<NewModule("BDropout", 1)>>
    /\ rng = 3
    /\ z = NoPools
    /\ theta = 0 /\ init_states = 1 /\ states = 0 /\ M = 0
    /\ i = 0 /\ it = 0 /\ trajectory = <<>> /\ zreads = {}
    /\ n_rollouts = 0 /\ n_opt_steps = 0 /\ loss = NoLoss /\ results = <<>>
    /\ zb = <<>> /\ actions = NoAction /\ sched = <<>>
    /\ IdleLayer /\ IdleZ /\ IdlePolicy /\ IdleModels

NextPilco ==
    Setup \/ IterBegin \/ RolloutNoise \/ RolloutPolicy \/ RolloutForward
        \/ IterEnd \/ LoopExit

SpecPilco == InitPilco /\ [][NextPilco]_vars

-----------------------------------------------------------------------------
(* Specification SpecLayer: calls on one BSequential, in any order *)

\* the chains explored: a lone layer of each variant, and a chain with both
Layouts ==
    { <<NewModule("BDropout", 1)>>,
      <<NewModule("CDropout", 1)>>,
      <<NewModule("BDropout", 1), NewModule("Linear", 0), NewModule("CDropout", 2)>> }

NStochastic(mods) == Cardinality({k \in 1..Len(mods) : IsStochastic(mods[k])})

Stored(mods) == [k \in 1..Len(mods) |-> StoredMask(mods[k])]

\* a call on the chain, as recorded in hist
Event(op, rs, x, masks, before, err) ==
    [op |-> op, rs |-> rs, x |-> x, masks |-> masks, before |-> before, err |-> err]

Push(h, e) == IF Len(h) < 3 THEN Append(h, e) ELSE Append(Tail(h), e)

InitLayer ==
    /\ seq \in Layouts
    /\ rng = NStochastic(seq)
    /\ hist = <<>>
    /\ IdleZ
    /\ IdlePilco
    /\ IdlePolicy
    /\ IdleModels

\* seq.resample()
Resample ==
    /\ rng + NStochastic(seq) <= MaxDraws
    /\ LET r == Seq_resample(seq, rng) IN
       /\ seq' = r.mods
       /\ rng' = r.rng
       /\ hist' = Push(hist, Event("resample", FALSE, Scalar,
                                   [k \in 1..Len(seq) |-> r.mods[k].noise],
                                   Stored(seq), FALSE))
       /\ UNCHANGED <<varsZ, varsPolicy, varsModels, varsPilco>>

\* seq(x, resample=rs)
Forward ==
    \E x \in XShapes, rs \in BOOLEAN :
        /\ rng + NStochastic(seq) <= MaxDraws
        /\ LET f == Seq_forward(seq, x, rs, rng) IN
           /\ seq' = f.mods
           /\ rng' = f.rng
           /\ hist' = Push(hist, Event("forward", rs, x, f.masks, Stored(seq), f.err))
           /\ UNCHANGED <<varsZ, varsPolicy, varsModels, varsPilco>>

\* seq.train() / seq.eval(): sets self.training on every module
SetTraining ==
    \E b \in BOOLEAN :
        /\ \E k \in 1..Len(seq) : seq[k].training # b
        /\ seq' = [k \in 1..Len(seq) |-> [seq[k] EXCEPT !.training = b]]
        /\ hist' = Push(hist, Event(IF b THEN "train" ELSE "eval", FALSE, Scalar,
                                    <<>>, Stored(seq), FALSE))
        /\ UNCHANGED <<rng, varsZ, varsPolicy, varsModels, varsPilco>>

\* an optimizer step changes the learned parameter logit_p of CDropout layers
OptStep ==
    /\ \E k \in 1..Len(seq) : seq[k].cls = "CDropout" /\ seq[k].logit_p < MaxParam
    /\ seq' = [k \in 1..Len(seq) |->
                 IF seq[k].cls = "CDropout"
                 THEN [seq[k] EXCEPT !.logit_p = @ + 1] ELSE seq[k]]
    /\ hist' = Push(hist, Event("step", FALSE, Scalar, <<>>, Stored(seq), FALSE))
    /\ UNCHANGED <<rng, varsZ, varsPolicy, varsModels, varsPilco>>

NextLayer == Resample \/ Forward \/ SetTraining \/ OptStep

SpecLayer == InitLayer /\ [][NextLayer]_vars

-----------------------------------------------------------------------------
(* Claims about the stochastic layers *)

\* the window resample(); forward(x, resample=False); forward(x, resample=False)
ReuseWindow ==
    /\ Len(hist) = 3
    /\ hist[1].op = "resample"
    /\ hist[2].op = "forward" /\ ~hist[2].rs
    /\ hist[3].op = "forward" /\ ~hist[3].rs
    /\ hist[2].x = hist[3].x

\* C4: mask reuse. After resample(), two consecutive forward calls with
\* resample=False on the same input, with nothing in between, apply the same
\* mask in every stochastic layer (so the outputs are equal), for BDropout and
\* CDropout, in training and in evaluation mode.
C4_MaskReuse ==
    ReuseWindow => /\ hist[2].err = hist[3].err
                   /\ hist[2].masks = hist[3].masks

\* the window resample(); forward(x, resample=False)
ResampleWindow ==
    /\ Len(hist) >= 2
    /\ hist[Len(hist) - 1].op = "resample"
    /\ hist[Len(hist)].op = "forward" /\ ~hist[Len(hist)].rs

\* C5: after resample() (on every stochastic layer of the chain), the mask
\* applied by the next forward call with resample=False is computed from the
\* noise drawn by that resample() call, and is not the mask in use before it,
\* in training and in evaluation mode.  The formula states the second half,
\* which the first half implies (a mask computed from the new draw is not the
\* mask computed from an older one).
C5_ResampleForcesNewMask ==
    ResampleWindow =>
        LET rs == hist[Len(hist) - 1]
            fw == hist[Len(hist)]
        IN \A k \in 1..Len(fw.masks) :
                IsStochastic(seq[k]) /\ fw.masks[k].dist # "error"
                    => fw.masks[k] # rs.before[k]

-----------------------------------------------------------------------------
(* Specification SpecZ: get_z_rnd on every pool length, step index and batch *)

\* the pools are those mc_pilco allocates (steps + M rows), or None
InitZ ==
    /\ \E m \in 1..MaxM, steps \in 0..MaxSteps, given \in BOOLEAN,
          step \in 0..(2 * (MaxSteps + MaxM)) :
            zq = [z |-> IF given THEN Pool(1, steps + m) ELSE NonePool,
                  i |-> step, M |-> m]
    /\ zout = NoCall
    /\ rng = 1
    /\ IdleLayer
    /\ IdlePilco
    /\ IdlePolicy
    /\ IdleModels

GetZRnd ==
    /\ zout = NoCall
    /\ zout' = get_z_rnd(zq.z, zq.i, zq.M, rng + 1)
    /\ rng' = IF zq.z = NonePool THEN rng + 1 ELSE rng
    /\ UNCHANGED <<zq, varsLayer, varsPilco, varsPolicy, varsModels>>

NextZ == GetZRnd

SpecZ == InitZ /\ [][NextZ]_vars

\* C1: with a pool of length L supplied, get_z_rnd(z, i, shape) returns the
\* pool rows at indices (i + k) mod L, k = 0..M-1, M = shape[0]: the step
\* index wraps modulo the pool length and modulo nothing else.
C1_WrapsModuloPoolLength ==
    (zout # NoCall /\ zq.z # NonePool) =>
        /\ zout.op = "z"
        /\ zout.idxs = [k \in 1..zq.M |-> (zq.i + k - 1) % zq.z.len]

-----------------------------------------------------------------------------
(* Claims about mc_pilco and rollout, checked under SpecPilco *)

\* C2: with pegasus=True the three pools are allocated once before the first
\* iteration and never reallocated afterwards: every noise batch handed to a
\* rollout step is rows of the pool z holds now, and the batches handed to
\* step i are the same in every iteration (in every rollout call).
C2_PegasusNoiseFixed ==
    (pc # "idle" /\ args.pegasus) =>
        /\ \A r \in zreads :
              /\ r.batch.op = "z"
              /\ r.batch.pool = z[r.pool].id
        /\ \A r1, r2 \in zreads :
              (r1.pool = r2.pool /\ r1.i = r2.i) => r1.batch = r2.batch

\* two iterations have handed noise of the same pool to the same step
C2_Witness ==
    /\ pc # "idle" /\ args.pegasus
    /\ \E r1, r2 \in zreads : r1.pool = r2.pool /\ r1.i = r2.i /\ r1.it # r2.it

\* C3: with pegasus=True every index a rollout step reads from z_mm, z_states
\* and z_rewards lies in [0, pool length), the pool having steps + M rows.
C3_PoolReadsInRange ==
    (pc # "idle" /\ args.pegasus) =>
        \A r \in zreads :
            /\ z[r.pool].len = args.steps + heap[1].rows
            /\ r.batch.op # "IndexError"
            /\ \A k \in 1..Len(r.batch.idxs) :
                  r.batch.idxs[k] >= 0 /\ r.batch.idxs[k] < z[r.pool].len

\* the last step of a rollout of two particles has read its noise
C3_Witness ==
    /\ pc # "idle" /\ args.pegasus
    /\ heap[1].rows >= 2
    /\ \E r \in zreads : /\ r.i = args.steps - 1 /\ r.it >= 1
                         /\ \E k \in 1..Len(r.batch.idxs) : r.batch.idxs[k] >= 1

\* the trajectory a rollout call returned is well formed
WellFormed(res) ==
    LET t == res.traj
        m == heap[res.input].rows
    IN /\ Len(t) = args.steps
       /\ t # <<>> => t[1].states = res.input
       /\ \A k \in 1..Len(t) :
             /\ t[k].actions.op = "policy"
             /\ t[k].actions.x = heap[t[k].states]
             /\ heap[t[k].states].rows = m
             /\ t[k].actions.rows = m
             /\ t[k].rewards.rows = m
       /\ \A k \in 1..(Len(t) - 1) :
             LET nx == heap[t[k + 1].states]
                 raw == IF args.mm_states THEN nx.x ELSE nx
             IN /\ args.mm_states => nx.op = "mm"
                /\ raw.op = "next"
                /\ raw.x = heap[t[k].states]
                /\ raw.u = t[k].actions

\* C7: rollout returns exactly `steps` triples; the states of triple 0 are
\* the input batch, the states of triple i+1 are the next-state batch step i
\* produced (the moment-matched redraw when mm_states is set, the raw forward
\* output otherwise), the actions of triple i are the policy's output on the
\* states of triple i, and every batch has the particle count of the input.
C7_TrajectoryShape ==
    pc # "idle" => \A n \in 1..Len(results) : WellFormed(results[n])

\* a two-step rollout with moment matching has returned
C7_Witness ==
    /\ pc # "idle" /\ args.mm_states /\ args.steps = 2
    /\ Len(results) >= 1 /\ Len(results[1].traj) = 2

\* C8: neither rollout nor mc_pilco changes the state batch of the caller:
\* the caller's tensor (object 1) holds what it held before the call, also
\* when the initial states are redrawn and perturbed in every iteration.
C8_CallerStatesUnchanged ==
    pc # "idle" => heap[1] = X0(heap[1].rows)

\* mc_pilco has returned after redrawing the initial states twice
C8_Witness ==
    /\ pc = "done" /\ args.exp /\ n_rollouts >= 2 /\ init_states # 1

-----------------------------------------------------------------------------
(* Specification SpecRollout: a caller that uses the policy and dynamics   *)
(* networks (as training and control do) and then calls rollout twice on   *)
(* the same state batch and the same pools, parameters unchanged.          *)

InitRollout ==
    /\ pc = "caller"
    /\ \E m \in 1..MaxM, steps \in 0..MaxSteps, mm_states \in BOOLEAN,
          mm_rewards \in BOOLEAN, rp \in BOOLEAN, rm \in BOOLEAN :
            /\ args = [steps |-> steps, opt_iters |-> 0, pegasus |-> TRUE,
                       mm_states |-> mm_states, mm_rewards |-> mm_rewards,
                       maximize |-> TRUE, exp |-> FALSE,
                       resample_policy |-> rp, resample_model |-> rm]
            /\ heap = <<X0(m)>>
            /\ z = AllocPools(TRUE, steps, m, 2)
    /\ policy_model = <<NewModule("BDropout", 1)>>
    /\ dynamics_model = <<NewModule("CDropout", 2)>>
    /\ rng = 5
    /\ theta = 0 /\ init_states = 1 /\ states = 0 /\ M = 0
    /\ i = 0 /\ it = 0 /\ trajectory = <<>> /\ zreads = {}
    /\ n_rollouts = 0 /\ n_opt_steps = 0 /\ loss = NoLoss /\ results = <<>>
    /\ zb = <<>> /\ actions = NoAction /\ sched = <<>>
    /\ IdleLayer /\ IdleZ /\ IdlePolicy /\ IdleModels

\* before the rollouts: policy.model(x, resample=rs) or dynamics.model(x,
\* resample=rs) on a batch of any row count
CallerForward ==
    /\ pc = "caller" /\ n_rollouts = 0 /\ Len(hist) < MaxPre
    /\ \E dyn \in BOOLEAN, m \in 1..MaxM, rs \in BOOLEAN :
         LET f == Seq_forward(IF dyn THEN dynamics_model ELSE policy_model,
                              ActShape(m), rs, rng)
         IN /\ dynamics_model' = IF dyn THEN f.mods ELSE dynamics_model
            /\ policy_model' = IF dyn THEN policy_model ELSE f.mods
            /\ rng' = f.rng
            /\ hist' = Push(hist, Event("forward", rs, ActShape(m), f.masks, <<>>, f.err))
    /\ UNCHANGED <<sched, seq, varsZ, varsPolicy, varsModels, pc, args, z, theta, heap, init_states, states, M, i,
                   it, trajectory, zreads, n_rollouts, n_opt_steps, loss, results,
                   zb, actions>>

\* before the rollouts: policy.model.resample() or dynamics.model.resample()
CallerResample ==
    /\ pc = "caller" /\ n_rollouts = 0 /\ Len(hist) < MaxPre
    /\ \E dyn \in BOOLEAN :
         LET r == Seq_resample(IF dyn THEN dynamics_model ELSE policy_model, rng)
         IN /\ dynamics_model' = IF dyn THEN r.mods ELSE dynamics_model
            /\ policy_model' = IF dyn THEN policy_model ELSE r.mods
            /\ rng' = r.rng
            /\ hist' = Push(hist, Event("resample", FALSE, Scalar, <<>>, <<>>, FALSE))
    /\ UNCHANGED <<sched, seq, varsZ, varsPolicy, varsModels, pc, args, z, theta, heap, init_states, states, M, i,
                   it, trajectory, zreads, n_rollouts, n_opt_steps, loss, results,
                   zb, actions>>

\* before the rollouts: dynamics.eval() / dynamics.train()
CallerSetTraining ==
    /\ pc = "caller" /\ n_rollouts = 0 /\ Len(hist) < MaxPre
    /\ \E b \in BOOLEAN :
         /\ dynamics_model[1].training # b
         /\ dynamics_model' = [k \in 1..Len(dynamics_model) |->
                                 [dynamics_model[k] EXCEPT !.training = b]]
         /\ hist' = Push(hist, Event(IF b THEN "train" ELSE "eval", FALSE, Scalar,
                                     <<>>, <<>>, FALSE))
    /\ UNCHANGED <<sched, seq, varsZ, varsPolicy, varsModels, rng, pc, args, z, policy_model, theta, heap,
                   init_states, states, M, i, it, trajectory, zreads, n_rollouts,
                   n_opt_steps, loss, results, zb, actions>>

\* rollout(states, forward, policy, steps, ...): lines 24-25
CallRollout ==
    /\ pc = "caller" /\ n_rollouts < 2
    /\ states' = init_states
    /\ M' = heap[init_states].rows
    /\ trajectory' = <<>>
    /\ i' = 0
    /\ n_rollouts' = n_rollouts + 1
    /\ pc' = "rollout"
    /\ UNCHANGED <<sched, varsLayer, varsZ, varsPolicy, varsModels, rng, args, z, policy_model, dynamics_model,
                   theta, heap, init_states, it, zreads, n_opt_steps, loss, results,
                   zb, actions>>

\* what the caller gets: the trajectory with the state batches it refers to
Returned(t, raised) ==
    [traj |-> [k \in 1..Len(t) |->
                 [states |-> heap[t[k].states], actions |-> t[k].actions,
                  rewards |-> t[k].rewards]],
     raised |-> raised]

\* line 54: return trajectory (or the exception of a network call propagates)
RolloutReturn ==
    /\ \/ pc = "rollout" /\ i >= args.steps
       \/ pc = "raised"
    /\ results' = Append(results, Returned(trajectory, pc = "raised"))
    /\ pc' = "caller"
    /\ UNCHANGED <<sched, varsLayer, varsZ, varsPolicy, varsModels, rng, args, z, policy_model, dynamics_model,
                   theta, heap, init_states, states, M, i, it, trajectory, zreads,
                   n_rollouts, n_opt_steps, loss, zb, actions>>

NextRollout ==
    CallerForward \/ CallerResample \/ CallerSetTraining \/ CallRollout
        \/ RolloutNoise \/ RolloutPolicy \/ RolloutForward \/ RolloutReturn

SpecRollout == InitRollout /\ [][NextRollout]_vars

\* C6: rollout determinism.  Two rollout calls with resample_model=False and
\* resample_policy=False, the same input state batch, the same supplied noise
\* pools and unchanged parameters return identical trajectories (the same
\* states, actions and rewards at every step), also when the first call is
\* the one that creates the layers' masks.
C6_RolloutDeterminism ==
    (pc = "caller" /\ Len(results) = 2
        /\ ~args.resample_policy /\ ~args.resample_model)
    => results[1] = results[2]

-----------------------------------------------------------------------------
(* Specification SpecPolicy: Policy.forward on one element of the output  *)
(* of the wrapped network *)

\* u = scale * model(x) - bias
Policy_affine_sub(scale, bias, raw) == scale * raw - bias

\* u = self.scale * self.model(x, **kwargs) + self.bias
Policy_affine(scale, bias, raw) == scale * raw + bias

InitPolicy ==
    /\ polq \in [scale : -1..MaxVal, bias : -MaxVal..MaxVal, raw : -MaxVal..MaxVal]
    /\ pout = <<>>
    /\ rng = 0
    /\ IdleLayer /\ IdleZ /\ IdlePilco /\ IdleModels

PolicyForward ==
    /\ pout = <<>>
    /\ pout' = <<Policy_affine(polq.scale, polq.bias, polq.raw)>>
    /\ UNCHANGED <<polq, rng, varsLayer, varsZ, varsPilco, varsModels>>

NextPolicy == PolicyForward

SpecPolicy == InitPolicy /\ [][NextPolicy]_vars

\* C10 as stated: every action produced by Policy.forward lies within
\* [bias, bias + scale], whatever the wrapped network outputs.
C10_ActionWithinBiasScale ==
    pout # <<>> => polq.bias <= pout[1] /\ pout[1] <= polq.bias + polq.scale

\* C10 (amended): for out_scale >= 0 the action lies within
\* [bias, bias + scale] whenever the wrapped network's output lies in [0, 1].
C10_ActionWithinBiasScaleForUnitOutput ==
    (pout # <<>> /\ polq.scale >= 0 /\ polq.raw >= 0 /\ polq.raw <= 1)
        => polq.bias <= pout[1] /\ pout[1] <= polq.bias + polq.scale

\* an action was computed from a network output of 1 with a bias
C10_Witness ==
    /\ pout # <<>> /\ polq.scale >= 1 /\ polq.raw = 1 /\ polq.bias # 0
    /\ pout[1] = polq.bias + polq.scale

-----------------------------------------------------------------------------
(* Specification SpecReg: BSequential.regularization_loss on every chain   *)
(* of up to MaxLen modules.  The loss is modelled by the regularizer terms *)
(* it adds up, in the order the code adds them.                            *)

\* the modules a chain is built from: the two dropout layers, nn.Linear with
\* and without bias, and an activation
RegModules ==
    [cls : {"BDropout", "CDropout", "ReLU"}, bias : {FALSE}]
        \cup [cls : {"Linear"}, bias : BOOLEAN]

RegChains == UNION {[1..n -> RegModules] : n \in 0..MaxLen}

\* hasattr(module, 'weights_regularizer'); BDropout also has biases_regularizer
HasRegularizer(l) == l.cls \in {"BDropout", "CDropout"}

\* isinstance(next_module, nn.Linear) or isinstance(next_module, _ConvNd)
IsAffine(l) == l.cls = "Linear"

\* module.weights_regularizer(next_module.weight) and, for a bias that is
\* not None, module.biases_regularizer(next_module.bias)
RegTerm(kind, layer, param) == [reg |-> kind, layer |-> layer, param |-> param]

\* lines 187-198: for next_module in modules[i:], up to the break; position
\* j is the module examined (the loop starts at the module itself)
RECURSIVE PairTerms(_, _, _)
PairTerms(mods, k, j) ==
    IF j > Len(mods) THEN <<>>
    ELSE IF IsAffine(mods[j])
    THEN <<RegTerm("weights", k, j)>>
            \o (IF mods[j].bias THEN <<RegTerm("biases", k, j)>> ELSE <<>>)
    ELSE PairTerms(mods, k, j + 1)

\* lines 181-199 where modules is a list (Python 2: dict.values() is a list)
RECURSIVE RegLoop(_, _)
RegLoop(mods, k) ==
    IF k > Len(mods) THEN <<>>
    ELSE (IF HasRegularizer(mods[k]) THEN PairTerms(mods, k, k) ELSE <<>>)
            \o RegLoop(mods, k + 1)

\* BSequential.regularization_loss.  self._modules.values() is a list under
\* Python 2 and a view under Python 3, and modules[i:] on a view raises
\* TypeError: the call raises at the first module that has a regularizer.
regularization_loss(mods, py) ==
    IF py = 3 /\ \E k \in 1..Len(mods) : HasRegularizer(mods[k])
    THEN [raised |-> "TypeError", terms |-> <<>>]
    ELSE [raised |-> "none", terms |-> RegLoop(mods, 1)]

InitReg ==
    /\ regq \in [mods : RegChains, py : {2, 3}]
    /\ regout = <<>>
    /\ rng = 0
    /\ IdleLayer /\ IdleZ /\ IdlePilco /\ IdlePolicy
    /\ IdleDyn /\ IdleData /\ IdleLoss

RegularizationLoss ==
    /\ regout = <<>>
    /\ regout' = <<regularization_loss(regq.mods, regq.py)>>
    /\ UNCHANGED <<regq, rng, varsLayer, varsZ, varsPilco, varsPolicy, varsDyn,
                   varsData, varsLoss>>

NextReg == RegularizationLoss

SpecReg == InitReg /\ [][NextReg]_vars

\* the terms the loss is said to consist of: for every stochastic layer its
\* weights regularizer on the first affine layer after it, and its biases
\* regularizer on that layer's bias when there is one
ExpectedTerms(mods) ==
    LET first(k) == {j \in (k + 1)..Len(mods) :
                        /\ IsAffine(mods[j])
                        /\ \A n \in (k + 1)..(j - 1) : ~IsAffine(mods[n])}
    IN UNION {{RegTerm("weights", k, j) : j \in first(k)}
                \cup {RegTerm("biases", k, j) : j \in {n \in first(k) : mods[n].bias}}
              : k \in {n \in 1..Len(mods) : IsStochastic(mods[n])}}

\* C11: regularization_loss equals the sum, over each stochastic layer of the
\* chain, of that layer's weights_regularizer on the weight (plus its
\* biases_regularizer on the bias, when a bias exists) of the first affine
\* layer that follows it; a stochastic layer with no following affine layer
\* contributes nothing, and a chain without stochastic layers has loss zero.
C11_RegularizationLossSum ==
    regout # <<>> =>
        LET t == regout[1].terms IN
        /\ regout[1].raised = "none"
        /\ {t[n] : n \in 1..Len(t)} = ExpectedTerms(regq.mods)
        /\ Len(t) = Cardinality(ExpectedTerms(regq.mods))

\* C11 restricted to the interpreter whose dict.values() is a list
C11_HoldsUnderPython2 ==
    (regout # <<>> /\ regq.py = 2) =>
        LET t == regout[1].terms IN
        /\ regout[1].raised = "none"
        /\ {t[n] : n \in 1..Len(t)} = ExpectedTerms(regq.mods)
        /\ Len(t) = Cardinality(ExpectedTerms(regq.mods))

-----------------------------------------------------------------------------
(* Specification SpecDyn: DynamicsModel.forward on the same state and      *)
(* action batch, given once as a (state, action) pair and once as the      *)
(* concatenated array.  A tensor is the sequence of its columns (its last  *)
(* dimension); the columns the network computes are terms over its input.  *)

StateCols(D) == [k \in 1..D |-> [op |-> "s", k |-> k]]

ActionCols(U) == [k \in 1..U |-> [op |-> "a", k |-> k]]

\* torch.cat([a, b], -1)
Cat(a, b) == a \o b

\* t.split(n, -1): chunks of n columns, the last one shorter
RECURSIVE Split(_, _)
Split(t, n) ==
    IF Len(t) = 0 THEN <<>>
    ELSE IF Len(t) <= n THEN <<t>>
    ELSE <<SubSeq(t, 1, n)>> \o Split(SubSeq(t, n + 1, Len(t)), n)

\* a + b on the last dimension, with broadcasting; <<>> when the shapes do
\* not broadcast (RuntimeError)
Add(a, b) ==
    IF Len(a) = Len(b)
    THEN [k \in 1..Len(a) |-> [op |-> "add", a |-> a[k], b |-> b[k]]]
    ELSE IF Len(b) = 1
    THEN [k \in 1..Len(a) |-> [op |-> "add", a |-> a[k], b |-> b[1]]]
    ELSE IF Len(a) = 1
    THEN [k \in 1..Len(b) |-> [op |-> "add", a |-> a[1], b |-> b[k]]]
    ELSE <<>>

\* Regressor.forward(inputs) returning samples: n output columns computed
\* from the input array
Outs(inputs, n) == [k \in 1..n |-> [op |-> "out", k |-> k, x |-> inputs]]

Raised(e) == [raised |-> e, kind |-> "none", states |-> <<>>, rewards |-> <<>>]

\* DynamicsModel.forward(inputs, separate_outputs, deltas).  inputs is the
\* pair (a record with tuple = TRUE) or the array; q holds the model's
\* configuration: D, reward_func configured or not, samples returned or not.
DynamicsModel_forward(inputs, separate_outputs, deltas, q) ==
    LET inputs_as_tuple == inputs.tuple
        cat == IF inputs_as_tuple THEN Cat(inputs.states, inputs.actions)
               ELSE inputs.array
        outs == Outs(cat, IF q.reward_func THEN q.D ELSE q.D + 1)
        \* lines 307-309
        chunks == Split(cat, Len(outs))
        prev_states == IF inputs_as_tuple THEN inputs.states ELSE chunks[1]
        \* lines 311-318
        D == Len(outs) - 1
        dstates == IF q.reward_func THEN outs ELSE Split(outs, D)[1]
        rewards == IF q.reward_func
                   THEN <<[op |-> "reward_func", x |-> prev_states]>>
                   ELSE Split(outs, D)[2]
        new_states == IF deltas THEN dstates ELSE Add(prev_states, dstates)
    IN IF ~q.samples
       THEN [raised |-> "none", kind |-> "params",
             states |-> <<[op |-> "params", x |-> cat]>>, rewards |-> <<>>]
       ELSE IF ~inputs_as_tuple /\ Len(chunks) # 2 THEN Raised("ValueError")
       ELSE IF ~q.reward_func /\ Len(Split(outs, D)) # 2 THEN Raised("ValueError")
       ELSE IF new_states = <<>> THEN Raised("RuntimeError")
       ELSE IF separate_outputs
       THEN [raised |-> "none", kind |-> "pair", states |-> new_states,
             rewards |-> rewards]
       ELSE [raised |-> "none", kind |-> "array", states |-> Cat(new_states, rewards),
             rewards |-> <<>>]

InitDyn ==
    /\ dynq \in [D : 1..MaxD, U : 1..MaxU, reward_func : BOOLEAN,
                 samples : BOOLEAN, deltas : BOOLEAN, separate_outputs : BOOLEAN]
    /\ dynout = [pair |-> <<>>, array |-> <<>>]
    /\ rng = 0
    /\ IdleLayer /\ IdleZ /\ IdlePilco /\ IdlePolicy
    /\ IdleReg /\ IdleData /\ IdleLoss

\* dynamics((states, actions), ...)
DynForwardPair ==
    /\ dynout.pair = <<>>
    /\ dynout' = [dynout EXCEPT !.pair =
          <<DynamicsModel_forward(
                [tuple |-> TRUE, states |-> StateCols(dynq.D),
                 actions |-> ActionCols(dynq.U), array |-> <<>>],
                dynq.separate_outputs, dynq.deltas, dynq)>>]
    /\ UNCHANGED <<dynq, rng, varsLayer, varsZ, varsPilco, varsPolicy, varsReg,
                   varsData, varsLoss>>

\* dynamics(torch.cat([states, actions], -1), ...)
DynForwardArray ==
    /\ dynout.array = <<>>
    /\ dynout' = [dynout EXCEPT !.array =
          <<DynamicsModel_forward(
                [tuple |-> FALSE, states |-> <<>>, actions |-> <<>>,
                 array |-> Cat(StateCols(dynq.D), ActionCols(dynq.U))],
                dynq.separate_outputs, dynq.deltas, dynq)>>]
    /\ UNCHANGED <<dynq, rng, varsLayer, varsZ, varsPilco, varsPolicy, varsReg,
                   varsData, varsLoss>>

NextDyn == DynForwardPair \/ DynForwardArray

SpecDyn == InitDyn /\ [][NextDyn]_vars

\* C12: DynamicsModel.forward returns the same result for the (state,
\* action) pair and for the pre-concatenated array, for every reward
\* configuration, deltas and separate_outputs and all D >= 1, U >= 1, when
\* samples are returned.
C12_PairEqualsArray ==
    (dynq # <<>> /\ dynout.pair # <<>> /\ dynout.array # <<>> /\ dynq.samples)
        => dynout.pair = dynout.array

\* the configurations in which the two forms do agree: the array is split
\* at the width of the network output, which is D only with an external
\* reward function and U <= D; with a learned reward the first chunk is
\* wrong but unused when deltas are returned and 2 <= U <= D + 2
C12_AgreeWhenSplitFits ==
    (dynq # <<>> /\ dynout.pair # <<>> /\ dynout.array # <<>> /\ dynq.samples
        /\ \/ dynq.reward_func /\ dynq.U <= dynq.D
           \/ ~dynq.reward_func /\ dynq.deltas /\ dynq.U >= 2
                /\ dynq.U <= dynq.D + 2)
        => dynout.pair = dynout.array /\ dynout.pair[1].raised = "none"

-----------------------------------------------------------------------------
(* Specification SpecData: a DynamicsModel and any sequence of set_dataset *)
(* calls.  The targets Y are small matrices of two columns (one state      *)
(* dimension and the reward); the inputs X and the mean/std statistics are *)
(* terms.                                                                  *)

\* a tensor of targets: its rows, each a sequence of ncols numbers
Tensor(ncols, rows) == [tensor |-> TRUE, ncols |-> ncols, rows |-> rows]

\* an argument that is not a tensor (None, a numpy array)
NotATensor == [tensor |-> FALSE, ncols |-> 0, rows |-> <<>>]

\* torch.ones([1, 1]) / torch.zeros([1, 1])
Ones == Tensor(1, <<<<1>>>>)

Zeros == Tensor(1, <<<<0>>>>)

\* to_complex(X, self.angle_dims)
ToComplex(X) == [op |-> "to_complex", x |-> X]

\* t.mean(0, keepdim=True), t.std(0, keepdim=True), t.reciprocal()
Mean(t) == [op |-> "mean", x |-> t]

Std(t) == [op |-> "std", x |-> t]

Reciprocal(t) == [op |-> "reciprocal", x |-> t]

\* Regressor.__init__ and DynamicsModel.__init__: the registered buffers
NewDynamicsModel ==
    [X |-> Ones, Y |-> Ones, mx |-> Zeros, Sx |-> Ones, iSx |-> Ones,
     my |-> Zeros, Sy |-> Ones, iSy |-> Ones, maxR |-> Ones, minR |-> Ones]

\* Regressor.set_dataset: the assignments in order; assigning something
\* that is not a tensor to Y.data raises TypeError after X was assigned
Regressor_set_dataset(self, X, Y) ==
    LET s1 == [self EXCEPT !.X = ToComplex(X)] IN
    IF ~Y.tensor THEN [self |-> s1, raised |-> "TypeError"]
    ELSE [self |-> [s1 EXCEPT !.Y = Y,
                              !.mx = Mean(s1.X), !.Sx = Std(s1.X),
                              !.iSx = Reciprocal(Std(s1.X)),
                              !.my = Mean(Y), !.Sy = Std(Y),
                              !.iSy = Reciprocal(Std(Y))],
          raised |-> "none"]

\* the 0-based column index D = self.Y.shape[-1] - 1, as a 1-based column
RewardColumn_previous(Y) == Y.ncols - 1

RewardColumn(Y) == Y.ncols

\* Y.index_select(-1, c): one column
Column(Y, c) == [r \in 1..Len(Y.rows) |-> Y.rows[r][c]]

ColMax(col) == CHOOSE v \in {col[r] : r \in 1..Len(col)} :
                   \A r \in 1..Len(col) : col[r] <= v

ColMin(col) == CHOOSE v \in {col[r] : r \in 1..Len(col)} :
                   \A r \in 1..Len(col) : col[r] >= v

\* DynamicsModel.set_dataset: R.max() of a tensor without rows raises
\* RuntimeError after the statistics were assigned
DynamicsModel_set_dataset(self, X, Y) ==
    LET sup == Regressor_set_dataset(self, X, Y) IN
    IF sup.raised # "none" THEN sup
    ELSE LET R == Column(sup.self.Y, RewardColumn(sup.self.Y)) IN
         IF R = <<>> THEN [self |-> sup.self, raised |-> "RuntimeError"]
         ELSE [self |-> [sup.self EXCEPT !.maxR = ColMax(R), !.minR = ColMin(R)],
               raised |-> "none"]

\* the datasets given: inputs by name, targets of up to MaxRows rows (an
\* empty tensor included) or something that is not a tensor
DataX == {[op |-> "X", id |-> n] : n \in 1..2}

DataY ==
    {Tensor(2, rows) : rows \in UNION {[1..n -> [1..2 -> 0..1]] : n \in 0..MaxRows}}
        \cup {NotATensor}

InitData ==
    /\ data = NewDynamicsModel
    /\ dlast = <<>>
    /\ rng = 0
    /\ IdleLayer /\ IdleZ /\ IdlePilco /\ IdlePolicy
    /\ IdleReg /\ IdleDyn /\ IdleLoss

\* dyn.set_dataset(X, Y); an exception leaves the model as it was when the
\* exception was raised
SetDataset ==
    \E X \in DataX, Y \in DataY :
        LET r == DynamicsModel_set_dataset(data, X, Y) IN
        /\ data' = r.self
        /\ dlast' = [X |-> X, Y |-> Y, raised |-> r.raised]
        /\ UNCHANGED <<rng, varsLayer, varsZ, varsPilco, varsPolicy, varsReg,
                       varsDyn, varsLoss>>

NextData == SetDataset

SpecData == InitData /\ [][NextData]_vars

\* C13 as stated: set_dataset(X, Y) sets minR and maxR to the minimum and
\* the maximum of the second-to-last target dimension of Y.
C13_MinMaxOfSecondToLast ==
    (dlast # <<>> /\ dlast.raised = "none") =>
        /\ data.minR = ColMin(Column(dlast.Y, dlast.Y.ncols - 1))
        /\ data.maxR = ColMax(Column(dlast.Y, dlast.Y.ncols - 1))

\* C13 (amended): a set_dataset(X, Y) call that returns sets minR and maxR to
\* the minimum and the maximum, over the attached data, of the last target
\* dimension of Y.
C13_MinMaxOfLast ==
    (dlast # <<>> /\ dlast.raised = "none") =>
        /\ data.Y = dlast.Y
        /\ data.minR = ColMin(Column(dlast.Y, dlast.Y.ncols))
        /\ data.maxR = ColMax(Column(dlast.Y, dlast.Y.ncols))

\* a dataset was attached whose last column ranges over 0..1 and whose
\* second-to-last column is constant
C13_Witness ==
    /\ dlast # <<>> /\ dlast.raised = "none"
    /\ Len(dlast.Y.rows) = 2
    /\ data.minR = 0 /\ data.maxR = 1
    /\ dlast.Y.rows[1][1] = dlast.Y.rows[2][1]

\* C14: after any sequence of set_dataset calls, also one that ends in a
\* call that failed part-way, the statistics belong to the attached dataset:
\* mx/Sx and my/Sy are the mean/std of the attached X and Y, iSx and iSy the
\* reciprocals of Sx and Sy, and minR/maxR come from the same Y.  (Stated
\* for the models to which a dataset has been attached before: mx is no
\* longer the zeros of the constructor.)
C14_StatisticsOfAttachedDataset ==
    (dlast # <<>> /\ data.mx # Zeros) =>
        /\ data.mx = Mean(data.X) /\ data.Sx = Std(data.X)
        /\ data.iSx = Reciprocal(data.Sx)
        /\ data.my = Mean(data.Y) /\ data.Sy = Std(data.Y)
        /\ data.iSy = Reciprocal(data.Sy)
        /\ data.Y.rows # <<>> =>
            /\ data.minR = ColMin(Column(data.Y, data.Y.ncols))
            /\ data.maxR = ColMax(Column(data.Y, data.Y.ncols))

\* the same for the calls that return: no call that returns leaves
\* statistics of an older dataset behind
C14_HoldsAfterReturn ==
    (dlast # <<>> /\ dlast.raised = "none") =>
        /\ data.X = ToComplex(dlast.X) /\ data.Y = dlast.Y
        /\ data.mx = Mean(data.X) /\ data.Sx = Std(data.X)
        /\ data.iSx = Reciprocal(data.Sx)
        /\ data.my = Mean(data.Y) /\ data.Sy = Std(data.Y)
        /\ data.iSy = Reciprocal(data.Sy)
        /\ data.minR = ColMin(Column(data.Y, data.Y.ncols))
        /\ data.maxR = ColMax(Column(data.Y, data.Y.ncols))

-----------------------------------------------------------------------------
(* Further claims about the stochastic layers, checked under SpecLayer *)

\* the last call on the chain was forward, and no module raised
ForwardDone ==
    /\ hist # <<>>
    /\ hist[Len(hist)].op = "forward"
    /\ ~hist[Len(hist)].err

\* C15: for both layer variants, an input whose trailing shape differs from
\* the stored mask's makes forward regenerate the stored mask to that shape
\* before any resample logic, also with resample=True; hence after every
\* forward call the stored noise (and the stored relaxed mask of a CDropout)
\* has the trailing shape of the latest input.
C15_StoredMaskHasInputShape ==
    ForwardDone =>
        \A k \in 1..Len(seq) :
            IsStochastic(seq[k]) =>
                /\ seq[k].noise.shape = Trailing(hist[Len(hist)].x)
                /\ seq[k].cls = "CDropout" =>
                      seq[k].concrete_noise.shape = Trailing(hist[Len(hist)].x)

\* the same for the BDropout layers alone, whose forward tests the shape
\* first
C15_HoldsForBDropout ==
    ForwardDone =>
        \A k \in 1..Len(seq) :
            seq[k].cls = "BDropout" =>
                seq[k].noise.shape = Trailing(hist[Len(hist)].x)

\* C18: on every forward call with resample=False, the base noise from which
\* a CDropout computes the relaxed mask it applies has the trailing shape of
\* the input and consists of uniform draws (never the scalar Bernoulli
\* placeholder of the constructor), whatever calls preceded.
C18_BaseNoiseValid ==
    (hist # <<>> /\ hist[Len(hist)].op = "forward" /\ ~hist[Len(hist)].rs) =>
        LET fw == hist[Len(hist)] IN
        \A k \in 1..Len(fw.masks) :
            seq[k].cls = "CDropout" =>
                /\ fw.masks[k].dist = "uniform"
                /\ fw.masks[k].shape = Trailing(fw.x)

-----------------------------------------------------------------------------
(* Further claims about mc_pilco, checked under SpecPilco *)

RolloutCalls == {n \in 1..Len(sched) : sched[n].call = "rollout"}

\* the resampling schedule: with pegasus both networks are resampled once,
\* before the loop, and never in it; without, both are resampled in every
\* iteration right before its rollout; rollout is called with both resample
\* flags off
Schedule ==
    /\ \A n \in RolloutCalls :
          ~sched[n].resample_policy /\ ~sched[n].resample_model
    /\ args.pegasus =>
          /\ pc # "start" =>
                /\ Len(sched) >= 2
                /\ sched[1] = Call("dynamics.model.resample", 0)
                /\ sched[2] = Call("policy.model.resample", 0)
          /\ \A n \in 3..Len(sched) : n \in RolloutCalls
    /\ ~args.pegasus =>
          /\ Len(sched) = 3 * Cardinality(RolloutCalls)
          /\ \A n \in RolloutCalls :
                /\ n >= 3
                /\ sched[n - 2] = Call("dynamics.model.resample", sched[n].it)
                /\ sched[n - 1] = Call("policy.model.resample", sched[n].it)
    /\ \A k \in 1..n_rollouts : \E n \in RolloutCalls : sched[n].it = k

\* the masks the dynamics network applied in a step of the trajectory
DynMasks(e) == IF e.rewards.op = "mm" THEN e.rewards.x.masks ELSE e.rewards.masks

\* C16: with pegasus=False dynamics.model.resample() and
\* policy.model.resample() are both called in every iteration before its
\* rollout; with pegasus=True exactly once, before the first iteration, and
\* never inside the loop; in both modes rollout is invoked with resampling
\* off for policy and model, so within one rollout the masks are the same in
\* all steps.
C16_ResamplingSchedule ==
    pc # "idle" =>
        /\ Schedule
        /\ \A k1, k2 \in 1..Len(trajectory) :
              /\ trajectory[k1].actions.masks = trajectory[k2].actions.masks
              /\ DynMasks(trajectory[k1]) = DynMasks(trajectory[k2])

\* the schedule alone, and the masks of the policy (BDropout) network
C16_ScheduleAndPolicyMasks ==
    pc # "idle" =>
        /\ Schedule
        /\ \A k1, k2 \in 1..Len(trajectory) :
              trajectory[k1].actions.masks = trajectory[k2].actions.masks

-----------------------------------------------------------------------------
(* Specification SpecLoss: the loss mc_pilco computes from the stacked     *)
(* rewards of a trajectory (steps x particles x 1).  Means are fractions.  *)

Frac(num, den) == [num |-> num, den |-> den]

\* a/b = c/d
FracEq(a, b) == a.num * b.den = b.num * a.den

RECURSIVE Sum(_)
Sum(t) == IF t = <<>> THEN 0 ELSE Head(t) + Sum(Tail(t))

\* rewards.mean(1): for every step the mean over the particles
MeanOverBatch(rewards) ==
    [k \in 1..Len(rewards) |-> Frac(Sum(rewards[k]), Len(rewards[k]))]

\* .mean(0): the mean over the steps of fractions of one denominator
MeanOverSteps(f) ==
    Frac(Sum([k \in 1..Len(f) |-> f[k].num]), f[1].den * Len(f))

\* line 102: loss = -rewards.mean(1).mean(0) if maximize else
\* rewards.mean(1).mean(0)
mc_pilco_loss(rewards, maximize) ==
    LET l == MeanOverSteps(MeanOverBatch(rewards)) IN
    IF maximize THEN Frac(-l.num, l.den) ELSE l

\* the stacked rewards of a trajectory of steps >= 1 of m >= 1 particles
StackedRewards ==
    UNION {[1..steps -> [1..m -> 0..1]] : steps \in 1..MaxSteps, m \in 1..MaxM}

InitLoss ==
    /\ lossq \in [rewards : StackedRewards, maximize : BOOLEAN]
    /\ lossout = <<>>
    /\ rng = 0
    /\ IdleLayer /\ IdleZ /\ IdlePilco /\ IdlePolicy
    /\ IdleReg /\ IdleDyn /\ IdleData

ComputeLoss ==
    /\ lossout = <<>>
    /\ lossout' = <<mc_pilco_loss(lossq.rewards, lossq.maximize)>>
    /\ UNCHANGED <<lossq, rng, varsLayer, varsZ, varsPilco, varsPolicy, varsReg,
                   varsDyn, varsData>>

NextLoss == ComputeLoss

SpecLoss == InitLoss /\ [][NextLoss]_vars

\* the sum over the steps of the mean over the particles
SumOfBatchMeans(rewards) ==
    Frac(Sum([k \in 1..Len(rewards) |-> Sum(rewards[k])]), Len(rewards[1]))

\* C17: the loss is the rewards averaged over the particle index and summed
\* over the time-step index, negated when maximize=True and not negated when
\* maximize=False.
C17_LossSumsOverTime ==
    lossout # <<>> =>
        LET e == SumOfBatchMeans(lossq.rewards) IN
        FracEq(lossout[1], IF lossq.maximize THEN Frac(-e.num, e.den) ELSE e)

\* what the code computes: the mean over the steps of the mean over the
\* particles, with the sign as stated
C17_LossAveragesOverTime ==
    lossout # <<>> =>
        LET e == SumOfBatchMeans(lossq.rewards)
            a == Frac(e.num, e.den * Len(lossq.rewards))
        IN FracEq(lossout[1], IF lossq.maximize THEN Frac(-a.num, a.den) ELSE a)

====
